---- MODULE Spec2Model ----
(***************************************************************************)
(* Risk decision engine of Leaseth (src/src/scoring.py) and its feature    *)
(* engineering transform (src/src/features.py).                            *)
(*                                                                         *)
(* Probabilities, thresholds and rates are Python floats in the source.    *)
(* Here they are integers counting thousandths (0.45 is 450), so that the  *)
(* comparisons and the additive threshold deltas of the source are exact.  *)
(* Costs are integers in an arbitrary currency unit: only their quotient   *)
(* is compared.  The values of a feature batch are exact rationals.        *)
(***************************************************************************)
EXTENDS Integers, Sequences, FiniteSets, TLC

VARIABLES
    V1_MODEL,        \* scoring.py:16  module global
    V3_MODEL,        \* scoring.py:17
    V1_FEATURES,     \* scoring.py:18
    V3_FEATURES,     \* scoring.py:19
    MODEL_HASH_V1,   \* scoring.py:20
    MODEL_HASH_V3,   \* scoring.py:21
    loadPc,          \* position of a running load_models() call, or "idle"
    loads,           \* number of load_models() calls started so far
    config_constants,\* config/constants.py: the module attributes the calls import
    recomputed,      \* a calculate_dynamic_thresholds call has returned cutoffs
    call             \* the call a client has made and not yet consumed

globals == <<V1_MODEL, V3_MODEL, V1_FEATURES, V3_FEATURES, MODEL_HASH_V1, MODEL_HASH_V3>>
loader  == <<loadPc, loads>>
vars    == <<V1_MODEL, V3_MODEL, V1_FEATURES, V3_FEATURES, MODEL_HASH_V1, MODEL_HASH_V3,
             loadPc, loads, config_constants, recomputed, call>>

-----------------------------------------------------------------------------
(* Bounds of the explored inputs.                                          *)

\* probabilities explored: 25 * k thousandths for k in -1 .. MaxQ
MaxQ == 41
\* previous_evictions explored: 0 .. MaxEvictions (or the key absent)
MaxEvictions == 2
\* custom threshold values explored: 300 * k thousandths for k in 1 .. MaxThreshK
MaxThreshK == 3
\* fp_cost and fn_cost explored: -1 .. MaxCost
MaxCost == 10
\* vacancy_rate explored: 10 * k thousandths for k in 0 .. MaxVacancyK
MaxVacancyK == 12
\* load_models() calls explored
MaxLoads == 1
\* the largest magnitude of a probability handed to the calibrator (thousandths)
MaxProbMagnitude == 1000000
\* rows of a batch handed to create_new_features
MaxRows == 2

-----------------------------------------------------------------------------
(* Python built-ins used by the source.                                    *)

Max(a, b) == IF a >= b THEN a ELSE b
Min(a, b) == IF a <= b THEN a ELSE b
Abs(a) == IF a < 0 THEN -a ELSE a

\* dict.get(key, default)
Get(d, key, default) == IF key \in DOMAIN d THEN d[key] ELSE default

\* Python's None, and truthiness of an Optional[Dict]
None == [kind |-> "None"]
IsNone(v) == v = None
Dict(m) == [kind |-> "dict", map |-> m]
Truthy(d) == ~IsNone(d) /\ DOMAIN d.map # {}

\* round(n / d) to the nearest integer, ties to even (Python 3 round), d # 0
RoundDiv(n, d) ==
    LET nn == IF d < 0 THEN -n ELSE n
        dd == Abs(d)
        fl == nn \div dd
        rem == nn - fl * dd
    IN  IF 2 * rem < dd THEN fl
        ELSE IF 2 * rem > dd THEN fl + 1
        ELSE IF fl % 2 = 0 THEN fl ELSE fl + 1

\* round(x, 2) of a value x given in thousandths: the nearest hundredth
Round2(x) == 10 * RoundDiv(x, 10)

-----------------------------------------------------------------------------
(* config/constants.py                                                     *)

AUTO_APPROVE_THRESHOLD == 450
MANUAL_REVIEW_THRESHOLD == 600
AUTO_REJECT_THRESHOLD == 750

\* the module namespace once config/constants.py has run
ConstantsModule ==
    [AUTO_APPROVE_THRESHOLD  |-> AUTO_APPROVE_THRESHOLD,
     MANUAL_REVIEW_THRESHOLD |-> MANUAL_REVIEW_THRESHOLD,
     AUTO_REJECT_THRESHOLD   |-> AUTO_REJECT_THRESHOLD]

\* "from config.constants import ..." inside a function body (scoring.py:219-223,
\* 355-359) binds locals to the attributes the module holds at the time of the call
ImportConstants ==
    [approve |-> config_constants.AUTO_APPROVE_THRESHOLD,
     manual  |-> config_constants.MANUAL_REVIEW_THRESHOLD,
     reject  |-> config_constants.AUTO_REJECT_THRESHOLD]

-----------------------------------------------------------------------------
(* Outcome of a call: a returned value or a raised exception.              *)

Returned(v) == [status |-> "returned", value |-> v]
Raised(e) == [status |-> "raised", error |-> e]

-----------------------------------------------------------------------------
(* calculate_dynamic_thresholds, scoring.py:337-409                        *)

\* cost_ratio > 1.5, for cost_ratio = fp_cost / fn_cost and fn_cost # 0
RatioAbove15(fp_cost, fn_cost) ==
    IF fn_cost > 0 THEN 2 * fp_cost > 3 * fn_cost ELSE 2 * fp_cost < 3 * fn_cost

\* cost_ratio < 0.7
RatioBelow07(fp_cost, fn_cost) ==
    IF fn_cost > 0 THEN 10 * fp_cost < 7 * fn_cost ELSE 10 * fp_cost > 7 * fn_cost

\* the delta the cost-ratio band adds to approve, manual and reject
CostDelta(fp_cost, fn_cost) ==
    IF RatioAbove15(fp_cost, fn_cost) THEN 50
    ELSE IF RatioBelow07(fp_cost, fn_cost) THEN -50
    ELSE 0

\* the delta the vacancy band adds to approve and manual
VacancyDelta(vacancy_rate) ==
    IF vacancy_rate > 100 THEN 50
    ELSE IF vacancy_rate < 30 THEN -50
    ELSE 0

\* every volume other than "low" and "normal" taken as "high"
VolumeDelta_unknownAsHigh(application_volume) ==
    IF application_volume = "low" THEN 30
    ELSE IF application_volume = "normal" THEN 0
    ELSE -30

\* the delta the application volume adds to approve and manual
VolumeDelta(application_volume) ==
    IF application_volume = "high" THEN -30
    ELSE IF application_volume = "low" THEN 30
    ELSE 0

\* the upper clamp left out
ClampApprove_noUpper(approve) == Max(200, approve)

\* line 399
ClampApprove(approve) == Max(200, Min(500, approve))

\* line 400
ClampManual(manual) == Max(500, Min(800, manual))

\* the approve range pasted for reject
ClampReject_approveRange(reject) == Max(200, Min(500, reject))

\* line 401
ClampReject(reject) == Max(750, Min(950, reject))

\* the f-string of line 408, as its template and the values that fill it
ThresholdReasoning(fp_cost, fn_cost) ==
    <<"FP cost $ vs FN cost $ (ratio: )", fp_cost, fn_cost, RoundDiv(100 * fp_cost, fn_cost)>>

\* the vacancy band moving the reject cutoff as well
AdjustedThresholds_rejectFollowsVacancy(fp_cost, fn_cost, vacancy_rate, application_volume) ==
    [approve |-> ImportConstants.approve + CostDelta(fp_cost, fn_cost)
                    + VacancyDelta(vacancy_rate) + VolumeDelta(application_volume),
     manual  |-> ImportConstants.manual + CostDelta(fp_cost, fn_cost)
                    + VacancyDelta(vacancy_rate) + VolumeDelta(application_volume),
     reject  |-> ImportConstants.reject + CostDelta(fp_cost, fn_cost)
                    + VacancyDelta(vacancy_rate)]

\* lines 362-396: the locals approve, manual and reject when line 399 is
\* reached (fn_cost # 0)
AdjustedThresholds(fp_cost, fn_cost, vacancy_rate, application_volume) ==
    [approve |-> ImportConstants.approve + CostDelta(fp_cost, fn_cost)
                    + VacancyDelta(vacancy_rate) + VolumeDelta(application_volume),
     manual  |-> ImportConstants.manual + CostDelta(fp_cost, fn_cost)
                    + VacancyDelta(vacancy_rate) + VolumeDelta(application_volume),
     reject  |-> ImportConstants.reject + CostDelta(fp_cost, fn_cost)]

calculate_dynamic_thresholds(fp_cost, fn_cost, vacancy_rate, application_volume) ==
    IF fn_cost = 0
    THEN Raised("ZeroDivisionError")
    ELSE
        LET adjusted == AdjustedThresholds(fp_cost, fn_cost, vacancy_rate, application_volume)
            approve == adjusted.approve
            manual  == adjusted.manual
            reject  == adjusted.reject
        IN  Returned([auto_approve  |-> Round2(ClampApprove(approve)),
                      manual_review |-> Round2(ClampManual(manual)),
                      auto_reject   |-> Round2(ClampReject(reject)),
                      \* round(cost_ratio, 2), in hundredths
                      cost_ratio    |-> RoundDiv(100 * fp_cost, fn_cost),
                      reasoning     |-> ThresholdReasoning(fp_cost, fn_cost)])

-----------------------------------------------------------------------------
(* _make_cost_aware_decision, scoring.py:193-315                           *)

\* lines 225-232: the thresholds a decision call uses
EffectiveThresholds(custom_thresholds) ==
    IF Truthy(custom_thresholds)
    THEN [approve |-> Get(custom_thresholds.map, "auto_approve", ImportConstants.approve),
          manual  |-> Get(custom_thresholds.map, "manual_review", ImportConstants.manual),
          reject  |-> Get(custom_thresholds.map, "auto_reject", ImportConstants.reject)]
    ELSE ImportConstants

\* an f-string with one {probability:.1%} slot: its template and the value
Reasoning(template, probability) == <<template, probability>>

\* the tier taken from the risk category instead of the branch
Decision_tierFromCategory(risk_category, recommendation, decision_tier, reasoning) ==
    [risk_category  |-> risk_category,
     recommendation |-> recommendation,
     decision_tier  |-> CASE risk_category = "LOW"  -> "TIER_1_AUTO_APPROVE"
                          [] risk_category = "HIGH" -> "TIER_3_AUTO_REJECT"
                          [] OTHER                  -> "TIER_2_MANUAL_REVIEW",
     reasoning      |-> reasoning]

Decision(risk_category, recommendation, decision_tier, reasoning) ==
    [risk_category  |-> risk_category,
     recommendation |-> recommendation,
     decision_tier  |-> decision_tier,
     reasoning      |-> reasoning]

\* a threshold on the wrong side of two evictions
MultipleEvictionsPoorCredit_offByOne(previous_evictions, credit_score) ==
    previous_evictions > 2 /\ credit_score < 600

\* line 257
MultipleEvictionsPoorCredit(previous_evictions, credit_score) ==
    previous_evictions >= 2 /\ credit_score < 600

\* the probability test dropped
EvictionHistoryVeryHigh_noProbability(previous_evictions, probability) ==
    previous_evictions >= 1

\* the probability test inverted
EvictionHistoryVeryHigh_inverted(previous_evictions, probability) ==
    previous_evictions >= 1 /\ probability < 850

\* line 264
EvictionHistoryVeryHigh(previous_evictions, probability) ==
    previous_evictions >= 1 /\ probability >= 850

\* line 271
NoEvictionsNearCertain(previous_evictions, probability, credit_score) ==
    previous_evictions = 0 /\ probability >= 900 /\ credit_score < 600

\* lines 257-285: the branch taken once probability >= reject_threshold
RejectBranch(probability, previous_evictions, credit_score) ==
    IF MultipleEvictionsPoorCredit(previous_evictions, credit_score)
    THEN Decision("HIGH", "REJECT", "TIER_3_AUTO_REJECT",
             Reasoning("Very high default probability (). Multiple evictions and poor credit.",
                       probability))
    ELSE IF EvictionHistoryVeryHigh(previous_evictions, probability)
    THEN Decision("HIGH", "REJECT", "TIER_3_AUTO_REJECT",
             Reasoning("Extremely high default probability () with eviction history.",
                       probability))
    ELSE IF NoEvictionsNearCertain(previous_evictions, probability, credit_score)
    THEN Decision("HIGH", "REJECT", "TIER_3_AUTO_REJECT",
             Reasoning("Near-certain default () with poor credit.", probability))
    ELSE Decision("HIGH", "MANUAL_REVIEW", "TIER_2_MANUAL_REVIEW",
             Reasoning("High probability () but warrants human review.", probability))

\* the sum left undivided
MidPoint_noHalving(approve_threshold, manual_threshold) ==
    approve_threshold + manual_threshold

\* line 290: (approve + manual) / 2, exact for thresholds in whole hundredths
MidPoint(approve_threshold, manual_threshold) ==
    (approve_threshold + manual_threshold) \div 2

\* lines 290-315: the manual-review band
ManualBranch(probability, approve_threshold, manual_threshold) ==
    LET mid_point == MidPoint(approve_threshold, manual_threshold)
    IN  IF probability < mid_point
        THEN Decision("LOW-MEDIUM", "MANUAL_REVIEW", "TIER_2_MANUAL_REVIEW",
                 Reasoning("Moderate probability (). Recommend approval with income verification.",
                           probability))
        ELSE IF probability < manual_threshold
        THEN Decision("MEDIUM", "MANUAL_REVIEW", "TIER_2_MANUAL_REVIEW",
                 Reasoning("Elevated risk (). Consider co-signer or increased deposit.",
                           probability))
        ELSE Decision("MEDIUM-HIGH", "MANUAL_REVIEW", "TIER_2_MANUAL_REVIEW",
                 Reasoning("High probability (). Review financial history and references carefully.",
                           probability))

\* the cutoff itself approved
BelowApprove_inclusive(probability, approve_threshold) == probability <= approve_threshold

\* line 242
BelowApprove(probability, approve_threshold) == probability < approve_threshold

\* risk_score, monthly_income, monthly_rent and rent_to_income_ratio are read
\* by the source and not used in any branch.
make_cost_aware_decision(probability, risk_score, features, custom_thresholds) ==
    LET t == EffectiveThresholds(custom_thresholds)
        credit_score == Get(features, "credit_score", 0)
        previous_evictions == Get(features, "previous_evictions", 0)
    IN  IF BelowApprove(probability, t.approve)
        THEN Decision("LOW", "AUTO_APPROVE", "TIER_1_AUTO_APPROVE",
                 Reasoning("Low default probability (). Strong applicant profile.", probability))
        ELSE IF probability >= t.reject
        THEN RejectBranch(probability, previous_evictions, credit_score)
        ELSE ManualBranch(probability, t.approve, t.manual)

-----------------------------------------------------------------------------
(* _calculate_confidence, scoring.py:181-190                               *)

\* the distance without abs()
DistanceFromHalf_signed(probability) == probability - 500

\* line 188: abs(probability - 0.5)
DistanceFromHalf(probability) == Abs(probability - 500)

\* the doubled distance returned as it is
ClampConfidence_unbounded(confidence) == confidence

\* line 190: max(0.0, min(1.0, confidence))
ClampConfidence(confidence) == Max(0, Min(1000, confidence))

calculate_confidence(probability) ==
    LET distance_from_half == DistanceFromHalf(probability)
        confidence == distance_from_half * 2
    IN  ClampConfidence(confidence)

-----------------------------------------------------------------------------
(* _calibrate_probability, scoring.py:158-178.  prob is in thousandths, the *)
(* exponent a * prob + b in ten-thousandths, the result in millionths.      *)

\* 1.0 / (1.0 + np.exp(-z)) at the exponents the explored probabilities give,
\* to the nearest millionth
SigmoidTable ==
    (-3300) :> 418241 @@ (-3000) :> 425557 @@ (-2700) :> 432907 @@ (-2400) :> 440286 @@
    (-2275) :> 443369 @@ (-2100) :> 447692 @@ (-2000) :> 450166 @@ (-1800) :> 455121 @@
    (-1725) :> 456982 @@ (-1500) :> 462570 @@ (-1450) :> 463813 @@ (-1200) :> 470036 @@
    (-1175) :> 470659 @@ (-900) :> 477515 @@ (-625) :> 484380 @@ (-600) :> 485004 @@
    (-350) :> 491251 @@ (-300) :> 492501 @@ (-75) :> 498125 @@ 0 :> 500000 @@
    200 :> 505000 @@ 300 :> 507499 @@ 475 :> 511873 @@ 600 :> 514996 @@
    750 :> 518741 @@ 900 :> 522485 @@ 1025 :> 525603 @@ 1200 :> 529964 @@
    1300 :> 532454 @@ 1500 :> 537430 @@ 1575 :> 539294 @@ 1800 :> 544879 @@
    1850 :> 546119 @@ 2100 :> 552308 @@ 2125 :> 552926 @@ 2400 :> 559714 @@
    2675 :> 566479 @@ 2700 :> 567093 @@ 2950 :> 573220 @@ 3000 :> 574443 @@
    3225 :> 579933 @@ 3300 :> 581759 @@ 3500 :> 586618 @@ 3600 :> 589040 @@
    3775 :> 593270 @@ 3900 :> 596283 @@ 4050 :> 599888 @@ 4200 :> 603483 @@
    4325 :> 606470 @@ 4500 :> 610639 @@ 4600 :> 613014 @@ 4800 :> 617748 @@
    4875 :> 619517 @@ 5100 :> 624806 @@ 5150 :> 625978 @@ 5400 :> 631812 @@
    5425 :> 632394 @@ 5700 :> 638763 @@ 5975 :> 645084 @@ 6000 :> 645656 @@
    6250 :> 651355 @@ 6300 :> 652489 @@ 6525 :> 657574 @@ 6600 :> 659260 @@
    6800 :> 663739 @@ 6900 :> 665967 @@ 7075 :> 669849 @@ 7200 :> 672607 @@
    7350 :> 675902 @@ 7500 :> 679179 @@ 7625 :> 681896 @@ 7800 :> 685680 @@
    7900 :> 687831 @@ 8100 :> 692110 @@ 8175 :> 693705 @@ 8400 :> 698465 @@
    8450 :> 699517 @@ 8700 :> 704746 @@ 8725 :> 705266 @@ 9000 :> 710950 @@
    9275 :> 716568 @@ 9300 :> 717075 @@ 9550 :> 722120 @@ 9600 :> 723122 @@
    9825 :> 727604 @@ 9900 :> 729088 @@ 10100 :> 733020 @@ 10200 :> 734973 @@
    10375 :> 738367 @@ 10500 :> 740775

\* beyond |z| = 15 the quotient is within 4e-7 of 0 or 1; from z = 37 it is
\* the float 1.0 and below z = -709 np.exp yields inf and the quotient 0.0
SigmoidSaturation == 150000

Sigmoid(z) ==
    IF z >= SigmoidSaturation THEN 1000000
    ELSE IF z <= -SigmoidSaturation THEN 0
    ELSE SigmoidTable[z]

\* math.exp, which raises OverflowError once the result leaves the float range
\* (arguments above 709.78)
ExpRaises_mathExp(x) == x > 7097800

\* np.exp signals overflow with a warning and returns inf; it does not raise
ExpRaises(x) == FALSE

\* line 174: np.clip(calibrated, 0.0, 1.0)
Clip01(calibrated) == Max(0, Min(1000000, calibrated))

calibrate_probability(prob, is_v1) ==
    LET a == IF is_v1 THEN 12 ELSE 11
        b == IF is_v1 THEN -3000 ELSE -2000
        z == a * prob + b
    IN  IF ExpRaises(-z)
        THEN prob * 1000            \* lines 176-178: except -> return prob
        ELSE Clip01(Sigmoid(z))

-----------------------------------------------------------------------------
(* Inputs explored.                                                        *)

ProbGrid == {25 * k : k \in -1 .. MaxQ}

\* engineered_features: a dict that may lack either evidence key
EvictionDicts ==
    {[k \in {} |-> 0]} \cup {[k \in {"previous_evictions"} |-> e] : e \in 0 .. MaxEvictions}
CreditDicts ==
    {[k \in {} |-> 0]} \cup {[k \in {"credit_score"} |-> c] : c \in {599, 600}}
FeatureDicts == {e @@ c : e \in EvictionDicts, c \in CreditDicts}

\* custom_thresholds: None, or a dict holding any subset of the three keys
ThresholdKeys == {"auto_approve", "manual_review", "auto_reject"}
ThreshGrid == {300 * k : k \in 1 .. MaxThreshK}
CustomThresholds ==
    {None} \cup {Dict(m) : m \in UNION {[K -> ThreshGrid] : K \in SUBSET ThresholdKeys}}

\* arguments of _calibrate_probability: the grid and two far-out finite values
CalibrateProbs == ProbGrid \cup {-MaxProbMagnitude, MaxProbMagnitude}

Costs == -1 .. MaxCost
VacancyGrid == {10 * k : k \in 0 .. MaxVacancyK}
Volumes == {"low", "normal", "high", "other"}

\* int(round(probability * 100)) clipped to 0..100 (lines 109-110).  Where
\* probability * 100 lies halfway between two integers the float product
\* decides the side, so both are possible.
RiskScores(probability) ==
    LET fl == probability \div 10
        raw == IF probability % 10 = 5 THEN {fl, fl + 1} ELSE {RoundDiv(probability, 10)}
    IN  {Max(0, Min(100, r)) : r \in raw}

-----------------------------------------------------------------------------
(* State.                                                                  *)

Idle == [op |-> "idle"]

Init ==
    /\ V1_MODEL = None
    /\ V3_MODEL = None
    /\ V1_FEATURES = None
    /\ V3_FEATURES = None
    /\ MODEL_HASH_V1 = None
    /\ MODEL_HASH_V3 = None
    /\ loadPc = "idle"
    /\ loads = 0
    /\ config_constants = ConstantsModule
    /\ recomputed = FALSE
    /\ call = Idle

-----------------------------------------------------------------------------
(* The threshold policy called directly.                                   *)

\* the cutoffs come back in a dict built by the call; the module attributes
\* written back from it
ConstantsAfterThresholds_published(out) ==
    IF out.status = "returned"
    THEN [AUTO_APPROVE_THRESHOLD  |-> out.value.auto_approve,
          MANUAL_REVIEW_THRESHOLD |-> out.value.manual_review,
          AUTO_REJECT_THRESHOLD   |-> out.value.auto_reject]
    ELSE config_constants

\* scoring.py:355-409 binds the imported values to locals and returns a new
\* dict; no statement assigns to an attribute of config.constants
ConstantsAfterThresholds(out) == config_constants

\* lines 219-232 and 55-155 likewise only read the imported names
ConstantsAfterDecision == config_constants

\* the mapping filled in with the defaults of the keys it lacks
CustomThresholdsAfter_setdefault(custom_thresholds) ==
    IF Truthy(custom_thresholds)
    THEN Dict([k \in ThresholdKeys |->
                 Get(custom_thresholds.map, k,
                     CASE k = "auto_approve"  -> ImportConstants.approve
                       [] k = "manual_review" -> ImportConstants.manual
                       [] OTHER               -> ImportConstants.reject)])
    ELSE custom_thresholds

\* lines 225-228: the caller's mapping is read with .get and nothing else, so
\* the object the caller holds after the call is the one it passed
CustomThresholdsAfter(custom_thresholds) == custom_thresholds

CalculateDynamicThresholds ==
    /\ call = Idle
    /\ \E fp_cost \in Costs, fn_cost \in Costs, vacancy_rate \in VacancyGrid,
          application_volume \in Volumes :
          LET out == calculate_dynamic_thresholds(fp_cost, fn_cost, vacancy_rate,
                                                  application_volume)
          IN  /\ call' = [op |-> "calculate_dynamic_thresholds",
                          fp_cost |-> fp_cost,
                          fn_cost |-> fn_cost,
                          vacancy_rate |-> vacancy_rate,
                          application_volume |-> application_volume,
                          \* approve, manual and reject before the clamps
                          adjusted |-> IF fn_cost = 0 THEN None
                                       ELSE AdjustedThresholds(fp_cost, fn_cost, vacancy_rate,
                                                               application_volume),
                          out |-> out]
              /\ config_constants' = ConstantsAfterThresholds(out)
              /\ recomputed' = (recomputed \/ out.status = "returned")
    /\ UNCHANGED <<globals, loader>>

MakeCostAwareDecision ==
    /\ call = Idle
    /\ \E probability \in ProbGrid, features \in FeatureDicts,
          custom_thresholds \in CustomThresholds :
          \E risk_score \in RiskScores(probability) :
              call' = [op |-> "_make_cost_aware_decision",
                       probability |-> probability,
                       risk_score |-> risk_score,
                       features |-> features,
                       custom_thresholds |-> custom_thresholds,
                       thresholds |-> EffectiveThresholds(custom_thresholds),
                       custom_thresholds_after |-> CustomThresholdsAfter(custom_thresholds),
                       out |-> Returned(make_cost_aware_decision(probability, risk_score,
                                                                 features, custom_thresholds))]
    /\ config_constants' = ConstantsAfterDecision
    /\ UNCHANGED <<globals, loader, recomputed>>

CalibrateProbability ==
    /\ call = Idle
    /\ \E prob \in CalibrateProbs, is_v1 \in BOOLEAN :
          call' = [op |-> "_calibrate_probability",
                   prob |-> prob,
                   is_v1 |-> is_v1,
                   out |-> calibrate_probability(prob, is_v1)]
    /\ UNCHANGED <<globals, loader, config_constants, recomputed>>

CalculateConfidence ==
    /\ call = Idle
    /\ \E probability \in ProbGrid :
          call' = [op |-> "_calculate_confidence",
                   probability |-> probability,
                   out |-> calculate_confidence(probability)]
    /\ UNCHANGED <<globals, loader, config_constants, recomputed>>

\* the caller consumes the outcome
Return ==
    /\ call # Idle
    /\ call' = Idle
    /\ UNCHANGED <<globals, loader, config_constants, recomputed>>

NextPolicy ==
    \/ CalculateDynamicThresholds
    \/ MakeCostAwareDecision
    \/ CalibrateProbability
    \/ CalculateConfidence
    \/ Return

SpecPolicy == Init /\ [][NextPolicy]_vars

-----------------------------------------------------------------------------
(* The model cache and load_models, scoring.py:15-52                       *)

\* what pickle.load yields for the artifact at settings.MODEL_<variant>_PATH
\* during the load-th call of load_models
ModelArtifact(variant, load) == [kind |-> "model", variant |-> variant, load |-> load]

\* the ordered feature names pickled beside each model; the lists are
\* artifacts outside the repository, these names stand for them
FeatureNames(variant) ==
    IF variant = "V1"
    THEN <<"credit_score", "previous_evictions", "rent_to_income_ratio">>
    ELSE <<"credit_score", "rent_to_income_ratio">>

FeatureArtifact(variant, load) ==
    [kind |-> "features", variant |-> variant, load |-> load, names |-> FeatureNames(variant)]

\* generate_model_hash, utils.py:24-31: the digest of the file, or "unknown"
\* when reading it fails
HashOutcomes(variant, load) ==
    {[kind |-> "sha256", variant |-> variant, load |-> load], [kind |-> "unknown"]}

LoadModelsBegin ==
    /\ loadPc = "idle"
    /\ loads < MaxLoads
    /\ loads' = loads + 1
    /\ loadPc' = "v1_model"
    /\ UNCHANGED <<globals, config_constants, recomputed, call>>

\* open() or pickle.load() raises: logged and re-raised (lines 45-47)
LoadFails ==
    /\ loadPc \in {"v1_model", "v1_features", "v3_model", "v3_features"}
    /\ loadPc' = "idle"
    /\ UNCHANGED <<globals, loads, config_constants, recomputed, call>>

LoadV1Model ==
    /\ loadPc = "v1_model"
    /\ V1_MODEL' = ModelArtifact("V1", loads)
    /\ loadPc' = "v1_features"
    /\ UNCHANGED <<V3_MODEL, V1_FEATURES, V3_FEATURES, MODEL_HASH_V1, MODEL_HASH_V3, loads,
                   config_constants, recomputed, call>>

LoadV1Features ==
    /\ loadPc = "v1_features"
    /\ V1_FEATURES' = FeatureArtifact("V1", loads)
    /\ loadPc' = "v1_hash"
    /\ UNCHANGED <<V1_MODEL, V3_MODEL, V3_FEATURES, MODEL_HASH_V1, MODEL_HASH_V3, loads,
                   config_constants, recomputed, call>>

LoadV1Hash ==
    /\ loadPc = "v1_hash"
    /\ \E h \in HashOutcomes("V1", loads) : MODEL_HASH_V1' = h
    /\ loadPc' = "v3_model"
    /\ UNCHANGED <<V1_MODEL, V3_MODEL, V1_FEATURES, V3_FEATURES, MODEL_HASH_V3, loads,
                   config_constants, recomputed, call>>

LoadV3Model ==
    /\ loadPc = "v3_model"
    /\ V3_MODEL' = ModelArtifact("V3", loads)
    /\ loadPc' = "v3_features"
    /\ UNCHANGED <<V1_MODEL, V1_FEATURES, V3_FEATURES, MODEL_HASH_V1, MODEL_HASH_V3, loads,
                   config_constants, recomputed, call>>

LoadV3Features ==
    /\ loadPc = "v3_features"
    /\ V3_FEATURES' = FeatureArtifact("V3", loads)
    /\ loadPc' = "v3_hash"
    /\ UNCHANGED <<V1_MODEL, V3_MODEL, V1_FEATURES, MODEL_HASH_V1, MODEL_HASH_V3, loads,
                   config_constants, recomputed, call>>

LoadV3Hash ==
    /\ loadPc = "v3_hash"
    /\ \E h \in HashOutcomes("V3", loads) : MODEL_HASH_V3' = h
    /\ loadPc' = "idle"
    /\ UNCHANGED <<V1_MODEL, V3_MODEL, V1_FEATURES, V3_FEATURES, MODEL_HASH_V1, loads,
                   config_constants, recomputed, call>>

check_models_loaded == ~IsNone(V1_MODEL) /\ ~IsNone(V3_MODEL)

-----------------------------------------------------------------------------
(* predict_and_score, scoring.py:55-155                                    *)

\* model outputs explored: predict_proba yields a probability in [0, 1]
PredictProbs == {p \in ProbGrid : p >= 0 /\ p <= 1000 /\ p % 150 = 0}

\* custom_thresholds explored at the scoring entry point
PredictThresholds ==
    {None} \cup {Dict(m) : m \in [ThresholdKeys -> ThreshGrid]}

\* lines 82-83
UseV1Model(engineered_features) == Get(engineered_features, "previous_evictions", 0) > 0

\* the financial-only branch handed the eviction-aware feature list
SelectModel_mixedFeatures(use_v1_model) ==
    IF use_v1_model
    THEN [model |-> V1_MODEL, features |-> V1_FEATURES,
          model_version |-> "V1_2025_11", model_hash |-> MODEL_HASH_V1]
    ELSE [model |-> V3_MODEL, features |-> V1_FEATURES,
          model_version |-> "V3_2025_11", model_hash |-> MODEL_HASH_V3]

\* lines 85-96: the locals the routing branch binds
SelectModel(use_v1_model) ==
    IF use_v1_model
    THEN [model |-> V1_MODEL, features |-> V1_FEATURES,
          model_version |-> "V1_2025_11", model_hash |-> MODEL_HASH_V1]
    ELSE [model |-> V3_MODEL, features |-> V3_FEATURES,
          model_version |-> "V3_2025_11", model_hash |-> MODEL_HASH_V3]

\* the expected features the vector lacks left out of the array
ExtractFeatures_presentOnly(engineered_features, names) ==
    LET present == SelectSeq(names, LAMBDA f : f \in DOMAIN engineered_features)
    IN  [i \in 1 .. Len(present) |-> engineered_features[present[i]]]

\* line 100: one entry per expected feature, in the list's order, 0 when absent
ExtractFeatures(engineered_features, names) ==
    [i \in 1 .. Len(names) |-> Get(engineered_features, names[i], 0)]

\* lines 105-151, once the feature array is built; probability is what
\* model.predict_proba returned and risk_score its rounding
ScoreResult(use_v1_model, sel, probability, risk_score, engineered_features, custom_thresholds) ==
    LET decision_result == make_cost_aware_decision(probability, risk_score,
                                                    engineered_features, custom_thresholds)
    IN  [success             |-> TRUE,
         default_probability |-> probability,
         risk_score          |-> risk_score,
         risk_category       |-> decision_result.risk_category,
         recommendation      |-> decision_result.recommendation,
         decision_tier       |-> decision_result.decision_tier,
         decision_reasoning  |-> decision_result.reasoning,
         confidence_score    |-> calculate_confidence(probability),
         model_version       |-> sel.model_version,
         model_hash          |-> sel.model_hash,
         model_used          |-> IF use_v1_model THEN "V1" ELSE "V3",
         num_features        |-> Len(sel.features.names)]

\* inference_time_ms, a wall-clock reading, is left out of the result.
PredictAndScore ==
    /\ call = Idle
    /\ \E engineered_features \in FeatureDicts, custom_thresholds \in PredictThresholds :
          LET use_v1_model == UseV1Model(engineered_features)
              sel == SelectModel(use_v1_model)
              entry == [op |-> "predict_and_score",
                        engineered_features |-> engineered_features,
                        custom_thresholds |-> custom_thresholds,
                        custom_thresholds_after |-> CustomThresholdsAfter(custom_thresholds)]
          IN  \/ /\ ~check_models_loaded
                 /\ call' = entry @@ [out |-> Raised("RuntimeError: Models not loaded")]
              \/ /\ check_models_loaded
                 /\ IsNone(sel.features)
                 \* iterating None raises TypeError, re-raised as ValueError (101-103)
                 /\ call' = entry @@ [model |-> sel.model, features |-> sel.features,
                                      out |-> Raised("ValueError: Feature extraction error")]
              \/ /\ check_models_loaded
                 /\ ~IsNone(sel.features)
                 /\ \E probability \in PredictProbs :
                      \E risk_score \in RiskScores(probability) :
                        call' = entry @@
                            [model |-> sel.model, features |-> sel.features,
                             X |-> ExtractFeatures(engineered_features, sel.features.names),
                             \* line 106: model.predict_proba(X)[0][1]
                             probability |-> probability,
                             thresholds |-> EffectiveThresholds(custom_thresholds),
                             out |-> Returned(ScoreResult(use_v1_model, sel, probability,
                                         risk_score, engineered_features, custom_thresholds))]
    /\ config_constants' = ConstantsAfterDecision
    /\ UNCHANGED <<globals, loader, recomputed>>

Next ==
    \/ LoadModelsBegin
    \/ LoadFails
    \/ LoadV1Model
    \/ LoadV1Features
    \/ LoadV1Hash
    \/ LoadV3Model
    \/ LoadV3Features
    \/ LoadV3Hash
    \/ PredictAndScore
    \/ Return

Spec == Init /\ [][Next]_vars

-----------------------------------------------------------------------------
(* create_new_features, features.py:9-352.  A number is a pair <<n, d>>    *)
(* with d >= 0 in lowest terms: the rational n / d, or for d = 0 what a    *)
(* float64 column holds after a division by zero: inf (n = 1), -inf        *)
(* (n = -1) or NaN (n = 0).  A text value s is <<s>> and None is << >>.    *)

Sign(n) == IF n > 0 THEN 1 ELSE IF n < 0 THEN -1 ELSE 0

RECURSIVE GCD(_, _)
GCD(a, b) == IF b = 0 THEN a ELSE GCD(b, a % b)

Frac(n, d) ==
    IF d = 0 THEN <<Sign(n), 0>>
    ELSE LET s == Sign(d)
             g == GCD(Abs(n), Abs(d))
         IN  <<(s * n) \div g, (s * d) \div g>>

Num(n) == <<n, 1>>
NaN == <<0, 0>>
NoneValue == << >>
Str(s) == <<s>>

IsNaN(x) == x = NaN
\* pandas isna(): NaN and None
IsNull(value) == value = NaN \/ value = NoneValue

Add(x, y) ==
    IF x[2] = 0 /\ y[2] = 0
    THEN (IF x = y THEN x ELSE NaN)
    ELSE Frac(x[1] * y[2] + y[1] * x[2], x[2] * y[2])
Neg(x) == <<-x[1], x[2]>>
Sub(x, y) == Add(x, Neg(y))
Mul(x, y) == Frac(x[1] * y[1], x[2] * y[2])
\* float division as pandas performs it: a zero divisor gives inf or NaN
Divide(x, y) ==
    IF y[1] = 0 /\ y[2] # 0
    THEN Frac(x[1], 0)
    ELSE Frac(Sign(y[1]) * x[1] * y[2], x[2] * Abs(y[1]))

Lt(x, y) == ~IsNaN(x) /\ ~IsNaN(y) /\ x[1] * y[2] < y[1] * x[2]
Gt(x, y) == Lt(y, x)
Ge(x, y) == ~IsNaN(x) /\ ~IsNaN(y) /\ ~Lt(x, y)
Le(x, y) == Ge(y, x)

\* Series.clip(lower, upper): NaN stays NaN
Clip(x, lower, upper) ==
    IF IsNaN(x) THEN x ELSE IF Lt(x, lower) THEN lower ELSE IF Gt(x, upper) THEN upper ELSE x
ClipLower(x, lower) == IF IsNaN(x) THEN x ELSE IF Lt(x, lower) THEN lower ELSE x

\* bool.astype(int)
BoolInt(b) == IF b THEN Num(1) ELSE Num(0)
\* Series.astype(int) of a finite number: truncation toward zero
AsInt(x) == Num(Sign(x[1]) * (Abs(x[1]) \div x[2]))

\* lines 19-47
numerical_defaults ==
    [bedrooms |-> Num(1), bathrooms |-> Num(1), square_feet |-> Num(800),
     property_age_years |-> Num(15), parking_spaces |-> Num(0), pets_allowed |-> Num(0),
     furnished |-> Num(0), monthly_rent |-> Num(10000), security_deposit |-> Num(20000),
     lease_term_months |-> Num(12), tenant_age |-> Num(35), monthly_income |-> Num(40000),
     employment_verified |-> Num(0), income_verified |-> Num(0), credit_score |-> Num(650),
     rental_history_years |-> Num(3), previous_evictions |-> Num(0),
     market_median_rent |-> Num(12000), days_to_rent_property |-> Num(30),
     local_unemployment_rate |-> Num(5), inflation_rate |-> Num(5),
     number_of_bedrooms |-> Num(1), property_size_sqft |-> Num(800),
     property_age |-> Num(15), on_time_payments_percent |-> Num(95),
     late_payments_count |-> Num(0), missed_payments_count |-> Num(0)]

\* lines 49-55
categorical_defaults ==
    [country |-> Str("Unknown"), city |-> Str("Unknown"),
     property_type |-> Str("Apartment"), employment_type |-> Str("Unknown"),
     currency |-> Str("INR")]

\* a value overwritten whether or not it is null
FillNa_overwrite(value, default_val) == default_val

\* Series.fillna(default_val), lines 61 and 67
FillNa(value, default_val) == IF IsNull(value) THEN default_val ELSE value

\* lines 57-67, for one row: an absent column is created with the default, a
\* present one has its nulls filled
FillDefaults(row, defaults) ==
    [col \in DOMAIN row \cup DOMAIN defaults |->
        IF col \in DOMAIN defaults
        THEN IF col \in DOMAIN row THEN FillNa(row[col], defaults[col]) ELSE defaults[col]
        ELSE row[col]]

\* lines 69-74, for one row: an alias column is copied only where its target
\* column does not exist yet
CopyAlias(row, source, target) ==
    IF source \in DOMAIN row /\ target \notin DOMAIN row
    THEN (target :> row[source]) @@ row
    ELSE row

CopyAliases(row) ==
    CopyAlias(CopyAlias(CopyAlias(row, "square_feet", "property_size_sqft"),
                        "property_age_years", "property_age"),
              "bedrooms", "number_of_bedrooms")

\* lines 77-81: the columns whose zeros are replaced, and by what
zero_replacements ==
    [monthly_income |-> Num(40000), credit_score |-> Num(650),
     market_median_rent |-> Num(12000), property_size_sqft |-> Num(800),
     monthly_rent |-> Num(10000)]

\* Series.replace(to_replace, value)
Replace(x, to_replace, value) == IF x = to_replace THEN value ELSE x

\* the zeros left where they are
ReplaceZeros_skipped(row) == row

ReplaceZeros(row) ==
    [col \in DOMAIN row |->
        IF col \in DOMAIN zero_replacements
        THEN Replace(row[col], Num(0), zero_replacements[col])
        ELSE row[col]]

\* the batch after lines 16-81
Prepared(df_in) ==
    [i \in 1 .. Len(df_in) |->
        ReplaceZeros(CopyAliases(
            FillDefaults(FillDefaults(df_in[i], numerical_defaults), categorical_defaults)))]

\* k * np.log1p(x), kept as the pair <<k, x>>; a zero product is <<0, 0>>
LogTerm(k, x) ==
    IF k = Num(0) \/ x = Num(0) THEN <<Num(0), Num(0)>> ELSE <<k, x>>

\* lines 262-267: pd.cut(bins=[0, 580, 670, 740, 850], labels=[3, 2, 1, 0],
\* include_lowest=True); a score outside the bins has no label
CreditTier(credit_score) ==
    IF Lt(credit_score, Num(0)) \/ IsNaN(credit_score) THEN NaN
    ELSE IF Le(credit_score, Num(580)) THEN Num(3)
    ELSE IF Le(credit_score, Num(670)) THEN Num(2)
    ELSE IF Le(credit_score, Num(740)) THEN Num(1)
    ELSE IF Le(credit_score, Num(850)) THEN Num(0)
    ELSE NaN

\* Series.max() > 0 ? Series.max() : 1, lines 200-201
RECURSIVE SeriesMax(_)
SeriesMax(series) ==
    IF Len(series) = 1 THEN series[1]
    ELSE LET m == SeriesMax(Tail(series))
         IN  IF Gt(series[1], m) THEN series[1] ELSE m

MaxOrOne(series) == IF Gt(SeriesMax(series), Num(0)) THEN SeriesMax(series) ELSE Num(1)

\* pd.factorize(series)[0] at position i: values are numbered from 0 in the
\* order they first appear in the batch; a null is -1
Factorize(series, i) ==
    IF IsNull(series[i]) THEN Num(-1)
    ELSE LET first == CHOOSE j \in 1 .. i :
                          /\ series[j] = series[i]
                          /\ \A k \in 1 .. j - 1 : series[k] # series[i]
         IN  Num(Cardinality({series[k] : k \in {j \in 1 .. first - 1 : ~IsNull(series[j])}}))

\* line 347
categorical_cols == <<"country", "city", "property_type", "employment_type", "currency">>

\* lines 348-350 for row i of the batch df
Encodings(df, i) ==
    LET present == {k \in 1 .. Len(categorical_cols) : categorical_cols[k] \in DOMAIN df[i]}
        enc(k) == Factorize([r \in 1 .. Len(df) |-> df[r][categorical_cols[k]]], i)
    IN  [name \in {categorical_cols[k] \o "_enc" : k \in present} |->
            enc(CHOOSE k \in present : categorical_cols[k] \o "_enc" = name)]

\* the derived column written over a raw one
PropertyAgeNormalizedColumn_inPlace == "property_age_years"

\* line 332: the column that receives property_age_years / 50
PropertyAgeNormalizedColumn == "property_age_normalized"

\* lines 89-342 for one prepared row; max_late and max_missed are the batch
\* maxima of lines 200-201
Derived(row, max_late, max_missed) ==
    LET late    == row.late_payments_count
        missed  == row.missed_payments_count
        on_time == row.on_time_payments_percent
        years   == row.rental_history_years
        income  == row.monthly_income
        rent    == row.monthly_rent
        credit  == row.credit_score
        one     == Num(1)
        ten     == Num(10)
        payment_delinquency_ratio == Divide(late, Add(Add(late, on_time), one))
        payment_severity_score == Add(Mul(late, Num(2)), Mul(missed, Num(5)))
        payment_reliability_index ==
            Mul(Divide(on_time, Num(100)),
                Sub(one, Clip(Divide(late, Num(12)), Num(0), one)))
        payment_consistency ==
            Divide(one, Add(one, Divide(Add(late, missed), Replace(years, Num(0), one))))
        payment_deterioration_rate == Divide(late, Replace(years, Num(0), Frac(1, 2)))
        payment_health_score ==
            Clip(Sub(Sub(ten, Clip(Mul(late, Frac(1, 2)), Num(0), Num(5))),
                     Clip(Mul(missed, Frac(3, 2)), Num(0), Num(5))),
                 Num(0), ten)
        verification_score_raw ==
            Add(AsInt(row.employment_verified), AsInt(row.income_verified))
        late_payments_normalized == Clip(Divide(late, max_late), Num(0), one)
        missed_payments_normalized == Clip(Divide(missed, max_missed), Num(0), one)
        on_time_normalized == Clip(Divide(on_time, Num(100)), Num(0), one)
        payment_risk_composite ==
            Mul(Clip(Add(Add(Add(Mul(late_payments_normalized, Frac(25, 100)),
                                 Mul(missed_payments_normalized, Frac(35, 100))),
                             Mul(Sub(one, on_time_normalized), Frac(20, 100))),
                         Mul(Clip(payment_deterioration_rate, Num(0), one), Frac(20, 100))),
                     Num(0), one),
                ten)
        behavioral_payment_score ==
            Mul(Add(Add(Mul(payment_reliability_index, Frac(40, 100)),
                        Mul(payment_consistency, Frac(30, 100))),
                    Mul(Sub(one, payment_delinquency_ratio), Frac(30, 100))),
                ten)
        income_multiple == Divide(income, rent)
        rent_to_income_ratio == Divide(rent, income)
        verification_score ==
            Add(AsInt(row.employment_verified), AsInt(row.income_verified))
        high_rent_burden == BoolInt(Gt(rent_to_income_ratio, Frac(4, 10)))
        tenant_stability_score ==
            Add(Mul(Clip(Divide(years, ten), Num(0), one), Frac(6, 10)),
                Mul(Clip(Divide(row.lease_term_months, Num(24)), Num(0), one), Frac(4, 10)))
        local_unemployment_rate_float == FillNa(row.local_unemployment_rate, Num(5))
        inflation_rate_float == FillNa(row.inflation_rate, Num(5))
    IN  (PropertyAgeNormalizedColumn :> Divide(row.property_age_years, Num(50))) @@
        [payment_delinquency_ratio |-> payment_delinquency_ratio,
         payment_severity_score |-> payment_severity_score,
         payment_reliability_index |-> payment_reliability_index,
         payment_risk_binary |-> BoolInt(Gt(late, Num(0)) \/ Gt(missed, Num(0))),
         payment_perfection |-> BoolInt(late = Num(0) /\ missed = Num(0)),
         payment_consistency |-> payment_consistency,
         payment_deterioration_rate |-> payment_deterioration_rate,
         payment_health_score |-> payment_health_score,
         credit_x_payment_reliability |->
            Mul(Divide(credit, Num(850)), payment_reliability_index),
         payment_risk_x_income_burden |->
            Divide(payment_severity_score, Divide(income, Num(1000))),
         verified_income_x_payment |->
            Mul(AsInt(row.income_verified), Sub(one, payment_delinquency_ratio)),
         rent_burden_x_late_payments |-> Mul(Divide(rent, income), Add(one, late)),
         employment_x_payment_consistency |->
            Mul(AsInt(row.employment_verified), payment_consistency),
         credit_x_payment_severity |->
            Mul(Sub(one, Divide(credit, Num(850))), payment_severity_score),
         experience_x_payment_reliability |->
            Mul(Clip(Divide(years, ten), Num(0), one), payment_reliability_index),
         verification_x_payment_health |->
            Mul(verification_score_raw, Divide(payment_health_score, ten)),
         late_payments_normalized |-> late_payments_normalized,
         missed_payments_normalized |-> missed_payments_normalized,
         on_time_normalized |-> on_time_normalized,
         payment_risk_composite |-> payment_risk_composite,
         payment_composite_squared |-> Mul(payment_risk_composite, payment_risk_composite),
         payment_composite_log |-> LogTerm(one, payment_risk_composite),
         behavioral_payment_score |-> behavioral_payment_score,
         ultimate_payment_risk_index |->
            Clip(Add(Add(Mul(payment_risk_composite, Frac(50, 100)),
                         Mul(Sub(ten, behavioral_payment_score), Frac(30, 100))),
                     Mul(Clip(payment_severity_score, Num(0), ten), Frac(20, 100))),
                 Num(0), ten),
         absolute_income |-> income,
         absolute_credit_score |-> credit,
         absolute_rent |-> rent,
         income_multiple |-> income_multiple,
         rent_to_income_ratio |-> rent_to_income_ratio,
         income_to_rent_buffer |-> ClipLower(Sub(income, rent), Num(0)),
         rent_vs_market_ratio |-> Divide(rent, row.market_median_rent),
         rent_per_sqft |-> Divide(rent, row.property_size_sqft),
         debt_to_income_proxy |-> Divide(rent, income),
         credit_tier |-> CreditTier(credit),
         income_stability |->
            BoolInt(row.employment_verified = one /\ Ge(income, Mul(rent, Num(3)))),
         verification_score |-> verification_score,
         high_rent_burden |-> high_rent_burden,
         subprime_credit |-> BoolInt(Lt(credit, Num(670))),
         tenant_stability_score |-> tenant_stability_score,
         property_desirability_score |->
            Add(Add(Mul(row.furnished, Frac(3, 10)),
                    Mul(Clip(Divide(row.parking_spaces, Num(3)), Num(0), one), Frac(3, 10))),
                Mul(Clip(Divide(Sub(Num(20), row.property_age_years), Num(20)), Num(0), one),
                    Frac(4, 10))),
         income_x_credit |-> Mul(Divide(income, Num(10000)), Divide(credit, Num(100))),
         rent_burden_x_credit |->
            Mul(rent_to_income_ratio, Sub(one, Divide(credit, Num(850)))),
         verification_x_income |-> LogTerm(verification_score, income),
         credit_x_verification |-> Mul(Divide(credit, Num(850)), verification_score),
         stability_x_rent_burden |-> Mul(tenant_stability_score, Sub(one, high_rent_burden)),
         income_multiple_x_credit |-> Mul(income_multiple, Divide(credit, Num(850))),
         security_deposit_ratio |-> Divide(row.security_deposit, rent),
         local_unemployment_rate_float |-> local_unemployment_rate_float,
         inflation_rate_float |-> inflation_rate_float,
         market_economic_factor |->
            Mul(Sub(one, Divide(local_unemployment_rate_float, ten)),
                Sub(one, Divide(inflation_rate_float, ten)))]

\* the frame the function returns, or the error of astype(int) at line 267
\* when some credit_score has no tier
create_new_features(df_in) ==
    LET df == Prepared(df_in)
        rows == 1 .. Len(df)
        max_late == MaxOrOne([i \in rows |-> df[i].late_payments_count])
        max_missed == MaxOrOne([i \in rows |-> df[i].missed_payments_count])
    IN  IF \E i \in rows : IsNaN(CreditTier(df[i].credit_score))
        THEN Raised("ValueError: Cannot convert float NaN to integer")
        ELSE Returned([i \in rows |->
                         Encodings(df, i) @@ Derived(df[i], max_late, max_missed) @@ df[i]])

\* line 16: the function works on df_in.copy(); the caller's frame is the
\* one it passed
FrameAfterCall(df_in) == df_in

-----------------------------------------------------------------------------
(* Batches handed to create_new_features.                                  *)

\* the raw fields the function expects (the keys of the two default tables)
ExpectedColumns == DOMAIN numerical_defaults \cup DOMAIN categorical_defaults

\* a record that supplies every expected field with a value other than its
\* default, and an identifier column the function does not know
TypicalRecord ==
    [applicant_id |-> Str("A-1"),
     bedrooms |-> Num(2), bathrooms |-> Num(2), square_feet |-> Num(1000),
     property_age_years |-> Num(5), parking_spaces |-> Num(1), pets_allowed |-> Num(1),
     furnished |-> Num(1), monthly_rent |-> Num(15000), security_deposit |-> Num(30000),
     lease_term_months |-> Num(6), tenant_age |-> Num(30), monthly_income |-> Num(50000),
     employment_verified |-> Num(1), income_verified |-> Num(1), credit_score |-> Num(720),
     rental_history_years |-> Num(5), previous_evictions |-> Num(1),
     market_median_rent |-> Num(18000), days_to_rent_property |-> Num(20),
     local_unemployment_rate |-> Num(4), inflation_rate |-> Num(6),
     number_of_bedrooms |-> Num(2), property_size_sqft |-> Num(1000),
     property_age |-> Num(5), on_time_payments_percent |-> Num(90),
     late_payments_count |-> Num(2), missed_payments_count |-> Num(1),
     country |-> Str("India"), city |-> Str("Mumbai"), property_type |-> Str("House"),
     employment_type |-> Str("Salaried"), currency |-> Str("USD")]

\* zeros in the five columns of lines 77-81 and in rental_history_years
ZeroRecord ==
    [TypicalRecord EXCEPT
        !.monthly_income = Num(0), !.credit_score = Num(0), !.market_median_rent = Num(0),
        !.property_size_sqft = Num(0), !.monthly_rent = Num(0),
        !.rental_history_years = Num(0), !.late_payments_count = Num(0),
        !.missed_payments_count = Num(3), !.employment_verified = Num(0),
        !.local_unemployment_rate = Num(12), !.city = Str("Pune")]

\* a credit score above the last bin of pd.cut
OutOfRangeRecord ==
    [TypicalRecord EXCEPT !.credit_score = Num(900), !.city = Str("Delhi")]

RawRecords == {TypicalRecord, ZeroRecord, OutOfRangeRecord}

\* columns looked at in combination
FocusColumns == {"monthly_income", "credit_score", "city"}

\* the sets of expected columns left out of a batch, or null in one of its rows
ColumnSubsets ==
    {{}} \cup {{col} : col \in ExpectedColumns} \cup {ExpectedColumns} \cup SUBSET FocusColumns

\* what a DataFrame holds where a record has no value
\* the (absent, null) pairs explored: either set alone ranges over
\* ColumnSubsets, both together over the focus columns
MissingPatterns ==
    {m \in ColumnSubsets \X ColumnSubsets :
        m[1] = {} \/ m[2] = {} \/ (m[1] \cup m[2]) \subseteq FocusColumns}

NullOf(col) == IF col \in DOMAIN categorical_defaults THEN NoneValue ELSE NaN

Batch(records, absent, nulls, null_row) ==
    [i \in 1 .. Len(records) |->
        [col \in (DOMAIN records[i]) \ absent |->
            IF i = null_row /\ col \in nulls THEN NullOf(col) ELSE records[i][col]]]

FeaturesCall(pass, df_in) ==
    [op |-> "create_new_features",
     pass |-> pass,
     df_in |-> df_in,
     df_in_after |-> FrameAfterCall(df_in),
     out |-> create_new_features(df_in)]

CreateNewFeatures ==
    /\ call = Idle
    /\ \E n \in 1 .. MaxRows :
         \E records \in [1 .. n -> RawRecords], missing \in MissingPatterns,
            null_row \in 1 .. n :
              call' = FeaturesCall(1, Batch(records, missing[1], missing[2], null_row))
    /\ UNCHANGED <<globals, loader, config_constants, recomputed>>

\* the function applied to the frame it returned
CreateNewFeaturesAgain ==
    /\ call.op = "create_new_features"
    /\ call.pass = 1
    /\ call.out.status = "returned"
    /\ call' = FeaturesCall(2, call.out.value)
    /\ UNCHANGED <<globals, loader, config_constants, recomputed>>

NextFeatures ==
    \/ CreateNewFeatures
    \/ CreateNewFeaturesAgain
    \/ Return

SpecFeatures == Init /\ [][NextFeatures]_vars

-----------------------------------------------------------------------------
(* Properties of calculate_dynamic_thresholds.                             *)

IsThresholdCall == call.op = "calculate_dynamic_thresholds"

\* the sum of deltas the call's inputs put on the approve cutoff before clamping
ApproveDeltas ==
    CostDelta(call.fp_cost, call.fn_cost) + VacancyDelta(call.vacancy_rate)
        + VolumeDelta(call.application_volume)

\* C1: for fn_cost > 0 the call returns cutoffs with
\* auto_approve <= manual_review <= auto_reject, whatever fp_cost,
\* vacancy_rate and application_volume are.
C1_ThresholdOrdering ==
    (IsThresholdCall /\ call.fn_cost > 0) =>
        /\ call.out.status = "returned"
        /\ call.out.value.auto_approve <= call.out.value.manual_review
        /\ call.out.value.manual_review <= call.out.value.auto_reject

\* the scenario fp 5 : fn 3, vacancy 0.12, volume "low": every delta upward
C1_Witness ==
    /\ IsThresholdCall
    /\ call.fp_cost = 5 /\ call.fn_cost = 3
    /\ call.vacancy_rate = 120 /\ call.application_volume = "low"
    /\ call.out.status = "returned"
    /\ call.out.value.auto_approve = 500
    /\ call.out.value.manual_review = 730
    /\ call.out.value.auto_reject = 800

\* C2: for fn_cost > 0 each returned cutoff lies in its clamp range:
\* auto_approve in [0.20, 0.50], manual_review in [0.50, 0.80],
\* auto_reject in [0.75, 0.95].
C2_ClampRanges ==
    (IsThresholdCall /\ call.fn_cost > 0) =>
        /\ call.out.status = "returned"
        /\ 200 <= call.out.value.auto_approve /\ call.out.value.auto_approve <= 500
        /\ 500 <= call.out.value.manual_review /\ call.out.value.manual_review <= 800
        /\ 750 <= call.out.value.auto_reject /\ call.out.value.auto_reject <= 950

\* a call whose adjusted approve cutoff left its range and was clamped back
C2_Witness ==
    /\ IsThresholdCall
    /\ call.fn_cost > 0
    /\ AUTO_APPROVE_THRESHOLD + ApproveDeltas > 500
    /\ call.out.status = "returned"
    /\ call.out.value.auto_approve = 500

\* C3: with fn_cost <= 0 the call is rejected with a validation error: no
\* division fault propagates and no threshold set is returned.
C3_FnCostGuarded ==
    (IsThresholdCall /\ call.fn_cost <= 0) =>
        /\ call.out.status = "raised"
        /\ call.out.error = "ValidationError"

-----------------------------------------------------------------------------
(* Properties of _make_cost_aware_decision.                                *)

IsDecisionCall == call.op = "_make_cost_aware_decision"

\* the evidence fields as the call reads them
CallEvictions == Get(call.features, "previous_evictions", 0)
CallCredit == Get(call.features, "credit_score", 0)
CallThresholds == EffectiveThresholds(call.custom_thresholds)

\* the three corroborating evidence conditions, as the claims state them
CorroboratingEvidence(q, previous_evictions, credit_score) ==
    \/ previous_evictions >= 2 /\ credit_score < 600
    \/ previous_evictions >= 1 /\ q >= 850
    \/ previous_evictions = 0 /\ q >= 900 /\ credit_score < 600

\* C4: REJECT (TIER_3_AUTO_REJECT) is returned only if q >= the effective
\* auto_reject cutoff and a corroborating evidence condition holds, for
\* every q, evidence and threshold set.
C4_RejectNeedsEvidence ==
    (IsDecisionCall /\ (\/ call.out.value.recommendation = "REJECT"
                        \/ call.out.value.decision_tier = "TIER_3_AUTO_REJECT")) =>
        /\ call.probability >= CallThresholds.reject
        /\ CorroboratingEvidence(call.probability, CallEvictions, CallCredit)

\* a REJECT under a custom threshold set, on the zero-evictions condition
C4_Witness ==
    /\ IsDecisionCall
    /\ Truthy(call.custom_thresholds)
    /\ CallEvictions = 0
    /\ call.out.value.recommendation = "REJECT"

\* C5: with the default thresholds, q >= 0.75 with two or more evictions and
\* credit below 600 gives TIER_3_AUTO_REJECT / REJECT / HIGH with the
\* "Multiple evictions and poor credit" reasoning, also when q >= 0.85.
C5_MultipleEvictionsFirst ==
    (/\ IsDecisionCall
     /\ ~Truthy(call.custom_thresholds)
     /\ call.probability >= 750
     /\ CallEvictions >= 2
     /\ CallCredit < 600) =>
        /\ call.out.value.decision_tier = "TIER_3_AUTO_REJECT"
        /\ call.out.value.recommendation = "REJECT"
        /\ call.out.value.risk_category = "HIGH"
        /\ call.out.value.reasoning[1] =
               "Very high default probability (). Multiple evictions and poor credit."

\* default thresholds, two evictions, poor credit and q >= 0.85
C5_Witness ==
    /\ IsDecisionCall
    /\ IsNone(call.custom_thresholds)
    /\ call.probability >= 850
    /\ CallEvictions = 2
    /\ CallCredit = 599
    /\ call.out.value.reasoning[1] =
           "Very high default probability (). Multiple evictions and poor credit."

\* C6: whenever q >= the effective auto_reject cutoff and no corroborating
\* evidence condition holds, the result is TIER_2_MANUAL_REVIEW with
\* recommendation MANUAL_REVIEW.
C6_DowngradeWithoutEvidence ==
    (/\ IsDecisionCall
     /\ call.probability >= CallThresholds.reject
     /\ ~CorroboratingEvidence(call.probability, CallEvictions, CallCredit)) =>
        /\ call.out.value.decision_tier = "TIER_2_MANUAL_REVIEW"
        /\ call.out.value.recommendation = "MANUAL_REVIEW"

\* C7: whenever q < the effective auto_approve cutoff the decision is
\* TIER_1_AUTO_APPROVE / AUTO_APPROVE / LOW whatever the evidence; with the
\* default thresholds Tier 1 is exactly q < 0.45.
C7_AutoApproveBelowCutoff ==
    IsDecisionCall =>
        /\ call.probability < CallThresholds.approve =>
              /\ call.out.value.decision_tier = "TIER_1_AUTO_APPROVE"
              /\ call.out.value.recommendation = "AUTO_APPROVE"
              /\ call.out.value.risk_category = "LOW"
        /\ ~Truthy(call.custom_thresholds) =>
              (call.out.value.decision_tier = "TIER_1_AUTO_APPROVE" <=> call.probability < 450)

\* Tier 1 for an applicant with two evictions and poor credit
C7_Witness ==
    /\ IsDecisionCall
    /\ call.probability < CallThresholds.approve
    /\ CallEvictions >= 2
    /\ CallCredit < 600
    /\ call.out.value.recommendation = "AUTO_APPROVE"

\* C8: for approve <= q < reject the decision is TIER_2_MANUAL_REVIEW /
\* MANUAL_REVIEW, LOW-MEDIUM when q < (approve + manual) / 2, MEDIUM when
\* (approve + manual) / 2 <= q < manual, MEDIUM-HIGH when q >= manual.
C8_ManualReviewBands ==
    (/\ IsDecisionCall
     /\ CallThresholds.approve <= call.probability
     /\ call.probability < CallThresholds.reject) =>
        LET t == CallThresholds
            q == call.probability
        IN  /\ call.out.value.decision_tier = "TIER_2_MANUAL_REVIEW"
            /\ call.out.value.recommendation = "MANUAL_REVIEW"
            /\ 2 * q < t.approve + t.manual => call.out.value.risk_category = "LOW-MEDIUM"
            /\ (2 * q >= t.approve + t.manual /\ q < t.manual) =>
                   call.out.value.risk_category = "MEDIUM"
            /\ q >= t.manual => call.out.value.risk_category = "MEDIUM-HIGH"

\* the MEDIUM band under a custom threshold set
C8_Witness ==
    /\ IsDecisionCall
    /\ Truthy(call.custom_thresholds)
    /\ call.out.value.risk_category = "MEDIUM"
    /\ call.out.value.recommendation = "MANUAL_REVIEW"

TierRank(decision_tier) ==
    IF decision_tier = "TIER_1_AUTO_APPROVE" THEN 1
    ELSE IF decision_tier = "TIER_2_MANUAL_REVIEW" THEN 2
    ELSE 3

CategoryRank(risk_category) ==
    IF risk_category = "LOW" THEN 1
    ELSE IF risk_category = "LOW-MEDIUM" THEN 2
    ELSE IF risk_category = "MEDIUM" THEN 3
    ELSE IF risk_category = "MEDIUM-HIGH" THEN 4
    ELSE 5

\* C9: for fixed evidence and a fixed threshold set, tier and risk category
\* are non-decreasing in q: at any q2 >= q neither is lower than at q.
C9_MonotonicInQ ==
    IsDecisionCall =>
        \A q2 \in ProbGrid :
            q2 >= call.probability =>
                LET d2 == make_cost_aware_decision(q2, call.risk_score, call.features,
                                                   call.custom_thresholds)
                IN  /\ TierRank(d2.decision_tier) >= TierRank(call.out.value.decision_tier)
                    /\ CategoryRank(d2.risk_category) >=
                           CategoryRank(call.out.value.risk_category)

\* a downgraded call (q >= reject, one eviction, manual review) above which
\* a higher q is auto-rejected
C9_Witness ==
    /\ IsDecisionCall
    /\ CallEvictions = 1
    /\ call.probability >= CallThresholds.reject
    /\ call.out.value.decision_tier = "TIER_2_MANUAL_REVIEW"
    /\ \E q2 \in ProbGrid :
          /\ q2 > call.probability
          /\ make_cost_aware_decision(q2, call.risk_score, call.features,
                 call.custom_thresholds).decision_tier = "TIER_3_AUTO_REJECT"

-----------------------------------------------------------------------------
(* Properties of predict_and_score.                                        *)

IsPredictCall == call.op = "predict_and_score"
PredictReturned == IsPredictCall /\ call.out.status = "returned"

\* C10: a scoring call uses the eviction-aware variant (V1) exactly when
\* previous_evictions > 0 and the financial-only variant (V3) otherwise, the
\* key being absent included; model, feature list, model_version,
\* model_hash, model_used and num_features all belong to that one variant.
C10_RoutingConsistent ==
    PredictReturned =>
        LET v == IF /\ "previous_evictions" \in DOMAIN call.engineered_features
                    /\ call.engineered_features["previous_evictions"] > 0
                 THEN "V1" ELSE "V3"
            r == call.out.value
        IN  /\ r.model_used = v
            /\ call.model.kind = "model" /\ call.model.variant = v
            /\ call.features.kind = "features" /\ call.features.variant = v
            /\ r.model_version = (IF v = "V1" THEN "V1_2025_11" ELSE "V3_2025_11")
            /\ r.model_hash.kind = "sha256" => r.model_hash.variant = v
            /\ r.num_features = Len(FeatureNames(v))
            /\ Len(call.X) = Len(FeatureNames(v))

\* both routes taken: this one with the key absent, to V3
C10_Witness ==
    /\ PredictReturned
    /\ "previous_evictions" \notin DOMAIN call.engineered_features
    /\ call.out.value.model_used = "V3"
    /\ call.out.value.model_hash.kind = "sha256"

-----------------------------------------------------------------------------
(* Properties of the model cache as predict_and_score sees it.             *)

VariantLoaded(model, features) == ~IsNone(model) /\ ~IsNone(features)

\* C11: the engine never serves without both variants: wherever the V1 or the
\* V3 model, with its feature list, has not been loaded, predict_and_score
\* fails and returns no decision, whichever variant the request routes to.
\* (A global once bound is never unbound, so a variant missing now was missing
\* when the pending call ran.)
C11_BothVariantsRequired ==
    PredictReturned =>
        /\ VariantLoaded(V1_MODEL, V1_FEATURES)
        /\ VariantLoaded(V3_MODEL, V3_FEATURES)

\* C12: the model_hash of every decision is the digest of the artifact bytes
\* of the model that produced it, never None or "unknown", hashing failures
\* in load_models included.
C12_HashOfProducingArtifact ==
    PredictReturned =>
        LET h == call.out.value.model_hash
        IN  /\ h.kind = "sha256"
            /\ h.variant = call.model.variant
            /\ h.load = call.model.load

\* C13: the probability a decision reports and compares with the cutoffs is
\* the calibrated one, the output of _calibrate_probability applied to what
\* the model returned, not the raw model output.
C13_CalibratedProbabilityReported ==
    PredictReturned =>
        call.out.value.default_probability * 1000
            = calibrate_probability(call.probability, call.out.value.model_used = "V1")

-----------------------------------------------------------------------------
(* Properties of _calibrate_probability and _calculate_confidence.         *)

IsCalibrateCall == call.op = "_calibrate_probability"
IsConfidenceCall == call.op = "_calculate_confidence"

\* C14: for every finite p and both values of is_v1, _calibrate_probability
\* returns a value in [0, 1].
C14_CalibratedInUnitInterval ==
    IsCalibrateCall => call.out >= 0 /\ call.out <= 1000000

\* a far-out negative input, where np.exp overflows, comes back as 0
C14_Witness ==
    /\ IsCalibrateCall
    /\ call.prob = -MaxProbMagnitude
    /\ ~call.is_v1
    /\ call.out = 0

-----------------------------------------------------------------------------
(* Properties of the thresholds in force.                                  *)

\* C17: the thresholds a decision uses satisfy
\* 0 <= approve <= manual <= reject <= 1, whether they are the static
\* defaults, a full custom set or a partial custom set completed by defaults.
C17_EffectiveThresholdsOrdered ==
    IsDecisionCall =>
        LET t == call.thresholds
        IN  /\ 0 <= t.approve
            /\ t.approve <= t.manual
            /\ t.manual <= t.reject
            /\ t.reject <= 1000

StaticDefaults ==
    [approve |-> AUTO_APPROVE_THRESHOLD,
     manual  |-> MANUAL_REVIEW_THRESHOLD,
     reject  |-> AUTO_REJECT_THRESHOLD]

\* C18: the shared defaults are read-only: after any sequence of
\* calculate_dynamic_thresholds calls and of decisions with custom thresholds
\* the static defaults are unchanged, a later decision without an override
\* uses exactly 0.45 / 0.60 / 0.75, and the mapping the caller supplied is
\* the one it passed.
C18_DefaultsReadOnly ==
    /\ config_constants = ConstantsModule
    /\ (call.op \in {"_make_cost_aware_decision", "predict_and_score"} =>
            call.custom_thresholds_after = call.custom_thresholds)
    /\ ((IsDecisionCall /\ ~Truthy(call.custom_thresholds)) =>
            call.thresholds = StaticDefaults)

\* a decision without override made after a recomputation returned cutoffs
C18_Witness ==
    /\ recomputed
    /\ IsDecisionCall
    /\ IsNone(call.custom_thresholds)
    /\ call.thresholds = StaticDefaults

-----------------------------------------------------------------------------
(* Properties of create_new_features.                                      *)

IsFeaturesCall(pass) == call.op = "create_new_features" /\ call.pass = pass

\* C19: create_new_features is idempotent: applied to its own output it
\* yields the same value for every field (raw, defaulted, derived and *_enc)
\* as applying it once.
C19_Idempotent ==
    IsFeaturesCall(2) => call.out = Returned(call.df_in)

\* a second application to a two-row batch whose second row had its income
\* defaulted or replaced and its city numbered after the first row's
C19_Witness ==
    /\ IsFeaturesCall(2)
    /\ call.out.status = "returned"
    /\ Len(call.df_in) = 2
    /\ call.df_in[2].monthly_income = Num(40000)
    /\ call.df_in[2].city_enc = Num(1)
    /\ call.out.value[2].city_enc = Num(1)
    /\ call.out.value[2].rent_per_sqft = call.df_in[2].rent_per_sqft

\* a row supplies a field when the column exists, the cell is not null and
\* it is not a zero in one of the columns where zero stands for "unset"
Supplied(row, col) ==
    /\ col \in DOMAIN row
    /\ ~IsNull(row[col])
    /\ ~(col \in DOMAIN zero_replacements /\ row[col] = Num(0))

DocumentedDefault(col) == (numerical_defaults @@ categorical_defaults)[col]

\* C20: a missing raw field is never an error: whichever expected fields are
\* absent or null, the transform completes (it stops only on a supplied
\* credit score outside the bins) and every expected field holds the
\* supplied value where one was supplied and its documented default
\* otherwise; the input batch is left unmodified.
C20_MissingFieldsDefaulted ==
    IsFeaturesCall(1) =>
        /\ call.df_in_after = call.df_in
        /\ call.out.status = "raised" =>
              \E i \in 1 .. Len(call.df_in) :
                  /\ Supplied(call.df_in[i], "credit_score")
                  /\ \/ Gt(call.df_in[i].credit_score, Num(850))
                     \/ Lt(call.df_in[i].credit_score, Num(0))
        /\ call.out.status = "returned" =>
              \A i \in 1 .. Len(call.df_in) : \A col \in ExpectedColumns :
                  call.out.value[i][col] =
                      IF Supplied(call.df_in[i], col)
                      THEN call.df_in[i][col]
                      ELSE DocumentedDefault(col)

\* monthly_income absent, city null, credit_score supplied
C20_Witness ==
    /\ IsFeaturesCall(1)
    /\ call.out.status = "returned"
    /\ "monthly_income" \notin DOMAIN call.df_in[1]
    /\ call.df_in[1].city = NoneValue
    /\ call.out.value[1].monthly_income = Num(40000)
    /\ call.out.value[1].city = Str("Unknown")
    /\ call.out.value[1].credit_score = Num(720)

IsFinite(x) == x[2] # 0

FeaturesReturned == call.op = "create_new_features" /\ call.out.status = "returned"

\* the ratio columns whose divisor is one of the five columns of lines 77-81
CriticalRatioColumns ==
    {"income_multiple", "rent_to_income_ratio", "rent_vs_market_ratio", "rent_per_sqft",
     "debt_to_income_proxy", "security_deposit_ratio", "payment_risk_x_income_burden",
     "rent_burden_x_late_payments", "income_multiple_x_credit", "rent_burden_x_credit"}

\* C21: when the ratios are computed monthly_income, credit_score,
\* market_median_rent, property_size_sqft and monthly_rent are non-zero, a
\* zero or missing value having been replaced by 40000, 650, 12000, 800 and
\* 10000, so no ratio is computed with a zero denominator (each is finite).
C21_NoZeroDenominator ==
    FeaturesReturned =>
        \A i \in 1 .. Len(call.df_in) :
            /\ \A col \in {"monthly_income", "credit_score", "market_median_rent",
                           "property_size_sqft", "monthly_rent"} :
                  /\ call.out.value[i][col] # Num(0)
                  /\ IsFinite(call.out.value[i][col])
                  /\ ~Supplied(call.df_in[i], col) =>
                        call.out.value[i][col] =
                            (CASE col = "monthly_income"     -> Num(40000)
                               [] col = "credit_score"       -> Num(650)
                               [] col = "market_median_rent" -> Num(12000)
                               [] col = "property_size_sqft" -> Num(800)
                               [] OTHER                      -> Num(10000))
            /\ \A col \in CriticalRatioColumns : IsFinite(call.out.value[i][col])

\* a supplied rent and floor area of zero: 10000 / 800
C21_Witness ==
    /\ IsFeaturesCall(1)
    /\ call.out.status = "returned"
    /\ call.df_in[1].monthly_rent = Num(0)
    /\ call.df_in[1].property_size_sqft = Num(0)
    /\ call.out.value[1].monthly_rent = Num(10000)
    /\ call.out.value[1].rent_per_sqft = Frac(25, 2)

InUnitInterval(x) == Ge(x, Num(0)) /\ Le(x, Num(1))

\* C22: for every non-negative unemployment and inflation rate (in percent)
\* the market-economic factor lies in [0, 1], and so do the tenant-stability
\* and property-desirability composites.
C22_CompositesInUnitInterval ==
    FeaturesReturned =>
        \A i \in 1 .. Len(call.df_in) :
            LET row == call.out.value[i]
            IN  /\ (Ge(row.local_unemployment_rate, Num(0)) /\ Ge(row.inflation_rate, Num(0))) =>
                        InUnitInterval(row.market_economic_factor)
                /\ InUnitInterval(row.tenant_stability_score)
                /\ InUnitInterval(row.property_desirability_score)

\* C23: the engineered values of a record, the *_enc codes included, are the
\* same whether the record is engineered alone or as a member of a batch:
\* they do not depend on the other records of the batch or on their order.
C23_BatchIndependent ==
    (IsFeaturesCall(1) /\ call.out.status = "returned") =>
        \A i \in 1 .. Len(call.df_in) :
            LET alone == create_new_features(<<call.df_in[i]>>)
            IN  /\ alone.status = "returned"
                /\ call.out.value[i] = alone.value[1]

-----------------------------------------------------------------------------
(* Properties of the feature array of predict_and_score.                   *)

\* C24: a feature of the selected model's list that the engineered vector
\* lacks enters the feature array as 0 and a decision is still returned; the
\* array has exactly one entry per expected feature, in the list's order.
C24_MissingFeatureIsZero ==
    IsPredictCall =>
        /\ call.out.status = "raised" =>
              call.out.error \in {"RuntimeError: Models not loaded",
                                  "ValueError: Feature extraction error"}
        /\ (call.out.status = "raised" /\ "features" \in DOMAIN call) => IsNone(call.features)
        /\ call.out.status = "returned" =>
              /\ Len(call.X) = Len(call.features.names)
              /\ \A i \in 1 .. Len(call.X) :
                    call.X[i] =
                        IF call.features.names[i] \in DOMAIN call.engineered_features
                        THEN call.engineered_features[call.features.names[i]]
                        ELSE 0

\* credit_score, first in the V3 list, absent from the vector
C24_Witness ==
    /\ PredictReturned
    /\ "credit_score" \notin DOMAIN call.engineered_features
    /\ call.features.names[1] = "credit_score"
    /\ call.X[1] = 0
    /\ call.out.value.recommendation \in {"AUTO_APPROVE", "MANUAL_REVIEW", "REJECT"}

-----------------------------------------------------------------------------
(* Properties of the threshold adjustments.                                *)

ThresholdsReturned == IsThresholdCall /\ call.out.status = "returned"

\* the bands as the claims state them, on fp_cost / fn_cost for fn_cost # 0
ClaimedCostBand ==
    LET fp == call.fp_cost
        fn == call.fn_cost
    IN  IF (fn > 0 /\ 2 * fp > 3 * fn) \/ (fn < 0 /\ 2 * fp < 3 * fn) THEN "above"
        ELSE IF (fn > 0 /\ 10 * fp < 7 * fn) \/ (fn < 0 /\ 10 * fp > 7 * fn) THEN "below"
        ELSE "none"
ClaimedVacancyBand ==
    IF call.vacancy_rate > 100 THEN "above" ELSE IF call.vacancy_rate < 30 THEN "below" ELSE "none"

\* C25: before clamping, a cost ratio above 1.5 adds 0.05 to all three
\* cutoffs and one below 0.7 subtracts 0.05 from all three; a vacancy rate
\* above 0.10 adds and one below 0.03 subtracts 0.05 on approve and manual
\* only; volume 'low' adds and 'high' subtracts 0.03 on approve and manual
\* only.  The returned auto_reject therefore depends on the cost band alone.
C25_PreClampDeltas ==
    ThresholdsReturned =>
        LET c == CASE ClaimedCostBand = "above" -> 50
                   [] ClaimedCostBand = "below" -> -50
                   [] OTHER -> 0
            v == CASE ClaimedVacancyBand = "above" -> 50
                   [] ClaimedVacancyBand = "below" -> -50
                   [] OTHER -> 0
            n == CASE call.application_volume = "low" -> 30
                   [] call.application_volume = "high" -> -30
                   [] OTHER -> 0
        IN  /\ call.adjusted.approve = 450 + c + v + n
            /\ call.adjusted.manual = 600 + c + v + n
            /\ call.adjusted.reject = 750 + c
            /\ call.out.value.auto_reject = (IF c = 50 THEN 800 ELSE 750)

\* all three bands add: approve 0.45 + 0.05 + 0.05 + 0.03, reject 0.75 + 0.05
C25_Witness ==
    /\ ThresholdsReturned
    /\ call.fp_cost = 2 /\ call.fn_cost = 1
    /\ call.vacancy_rate = 110
    /\ call.application_volume = "low"
    /\ call.adjusted = [approve |-> 580, manual |-> 730, reject |-> 800]
    /\ call.out.value.auto_reject = 800

-----------------------------------------------------------------------------
(* Properties of the alias columns.                                        *)

\* the alias pairs of lines 69-74: supplied name, name the features read
AliasPairs ==
    {<<"square_feet", "property_size_sqft">>,
     <<"property_age_years", "property_age">>,
     <<"bedrooms", "number_of_bedrooms">>}

\* C26: a record that supplies square_feet, property_age_years or bedrooms
\* but not property_size_sqft, property_age or number_of_bedrooms has the
\* supplied value copied into that field, and rent_per_sqft is computed from
\* the supplied square footage, not from the 800 default.
C26_AliasCopied ==
    (IsFeaturesCall(1) /\ call.out.status = "returned") =>
        \A i \in 1 .. Len(call.df_in) :
            LET raw == call.df_in[i]
                row == call.out.value[i]
            IN  /\ \A pair \in AliasPairs :
                      (Supplied(raw, pair[1]) /\ pair[2] \notin DOMAIN raw) =>
                          row[pair[2]] = raw[pair[1]]
                /\ (Supplied(raw, "square_feet") /\ "property_size_sqft" \notin DOMAIN raw) =>
                      row.rent_per_sqft = Divide(row.monthly_rent, raw.square_feet)

-----------------------------------------------------------------------------
(* Properties of load_models with respect to the cache.                    *)

\* the six globals as one load that ran to its end left them
CacheFromOneLoad ==
    /\ \A g \in {V1_MODEL, V3_MODEL, V1_FEATURES, V3_FEATURES, MODEL_HASH_V1, MODEL_HASH_V3} :
          ~IsNone(g)
    /\ V1_FEATURES.load = V1_MODEL.load
    /\ V3_MODEL.load = V1_MODEL.load
    /\ V3_FEATURES.load = V1_MODEL.load
    /\ MODEL_HASH_V1.kind = "sha256" => MODEL_HASH_V1.load = V1_MODEL.load
    /\ MODEL_HASH_V3.kind = "sha256" => MODEL_HASH_V3.load = V1_MODEL.load

CacheEmpty ==
    \A g \in {V1_MODEL, V3_MODEL, V1_FEATURES, V3_FEATURES, MODEL_HASH_V1, MODEL_HASH_V3} :
        IsNone(g)

\* C27: load_models is all-or-nothing for the cache: when no load is running
\* the globals are either untouched or those of one load that succeeded, a
\* load that raised having changed nothing; and a scoring call, interleaved
\* with a load or not, uses a model only with the feature list and the
\* fingerprint loaded with it.
C27_LoadAllOrNothing ==
    /\ loadPc = "idle" => (CacheEmpty \/ CacheFromOneLoad)
    /\ PredictReturned =>
          /\ call.features.load = call.model.load
          /\ ~IsNone(call.out.value.model_hash)
          /\ call.out.value.model_hash.kind = "sha256" =>
                call.out.value.model_hash.load = call.model.load

-----------------------------------------------------------------------------
(* Properties of the decision returned.                                    *)

\* C28: whatever thresholds the scoring entry point is given (static
\* defaults, a full or a partial custom override), an applicant whose
\* probability is at or above the effective auto_reject cutoff is never
\* given AUTO_APPROVE.
C28_NoApproveAboveReject ==
    (PredictReturned /\ call.probability >= call.thresholds.reject) =>
        call.out.value.recommendation # "AUTO_APPROVE"

\* C29: a decision carries exactly one of the three recommendations and its
\* fields agree: AUTO_APPROVE iff TIER_1_AUTO_APPROVE, and then category LOW;
\* REJECT iff TIER_3_AUTO_REJECT, and then category HIGH; MANUAL_REVIEW iff
\* TIER_2_MANUAL_REVIEW; category LOW never with MANUAL_REVIEW or REJECT.
C29_DecisionFieldsConsistent ==
    IsDecisionCall =>
        LET d == call.out.value
        IN  /\ d.recommendation \in {"AUTO_APPROVE", "MANUAL_REVIEW", "REJECT"}
            /\ d.recommendation = "AUTO_APPROVE" <=> d.decision_tier = "TIER_1_AUTO_APPROVE"
            /\ d.recommendation = "REJECT" <=> d.decision_tier = "TIER_3_AUTO_REJECT"
            /\ d.recommendation = "MANUAL_REVIEW" <=> d.decision_tier = "TIER_2_MANUAL_REVIEW"
            /\ d.recommendation = "AUTO_APPROVE" => d.risk_category = "LOW"
            /\ d.recommendation = "REJECT" => d.risk_category = "HIGH"
            /\ d.risk_category = "LOW" => d.recommendation = "AUTO_APPROVE"

\* category HIGH sent to manual review: the tier follows the recommendation
C29_Witness ==
    /\ IsDecisionCall
    /\ call.out.value.risk_category = "HIGH"
    /\ call.out.value.recommendation = "MANUAL_REVIEW"
    /\ call.out.value.decision_tier = "TIER_2_MANUAL_REVIEW"

\* C30: when no band applies (0.7 <= fp_cost / fn_cost <= 1.5,
\* 0.03 <= vacancy_rate <= 0.10, application_volume 'normal' or any
\* unrecognised value) the call returns exactly the static defaults
\* 0.45 / 0.60 / 0.75; an unrecognised volume is not an error.
C30_NoBandReturnsDefaults ==
    (/\ IsThresholdCall
     /\ call.fn_cost # 0
     /\ ClaimedCostBand = "none"
     /\ ClaimedVacancyBand = "none"
     /\ call.application_volume \notin {"low", "high"}) =>
        /\ call.out.status = "returned"
        /\ call.out.value.auto_approve = 450
        /\ call.out.value.manual_review = 600
        /\ call.out.value.auto_reject = 750

\* an unrecognised volume with balanced costs and a vacancy rate of 0.05
C30_Witness ==
    /\ ThresholdsReturned
    /\ call.fp_cost = 1 /\ call.fn_cost = 1
    /\ call.vacancy_rate = 50
    /\ call.application_volume = "other"
    /\ call.out.value.auto_approve = 450
    /\ call.out.value.auto_reject = 750

====
